---- MODULE Spec2Model ----
(***************************************************************************)
(* A model of the sapio example contracts (SmarterVault, UndoSend,         *)
(* UndoSend2, CancellableSubscription, CancelContest) and of the           *)
(* compilation driver that evaluates their path factories.                 *)
(***************************************************************************)
EXTENDS Integers, Sequences, FiniteSets, TLC

VARIABLES root, stack, templates, cache, gen, runs, entered,
          sub0, live, received, claims,
          now, since, returned, held, last,
          kwargs,
          vault, undos, stepTimes,
          arg, pc, out

vars == <<root, stack, templates, cache, gen, runs, entered,
          sub0, live, received, claims,
          now, since, returned, held, last,
          kwargs,
          vault, undos, stepTimes,
          arg, pc, out>>

compileVars == <<root, stack, templates, cache, gen, runs, entered>>
spendVars == <<sub0, live, received, claims>>
chainVars == <<now, since, returned, held, last>>
payVars == <<kwargs>>
vaultVars == <<vault, undos, stepTimes>>
convVars == <<arg, pc, out>>

(***************************************************************************)
(* Bounds of the model.                                                    *)
(***************************************************************************)
MaxSteps == 3
MaxAmountStep == 2
MaxTime == 2
MaxAmount == 2
MaxPay == 1
MaxLen == 2
MaxPeriod == 2
MaxTimes == 2

(***************************************************************************)
(* Values.                                                                 *)
(***************************************************************************)
NoLock == -1
None == [type |-> "None"]

RelativeTimeSpec(t) == [kind |-> "Relative", time |-> t]
AbsoluteTimeSpec(t) == [kind |-> "Absolute", time |-> t]

Times == 1..MaxTime
RelativeTimeSpecs == {RelativeTimeSpec(t) : t \in Times}
AbsoluteTimeSpecs == {AbsoluteTimeSpec(t) : t \in Times}
TimeSpecs == RelativeTimeSpecs \cup AbsoluteTimeSpecs

PayToSegwitAddress(a) == [type |-> "PayToSegwitAddress", addr |-> a]
PubKey(k) == [type |-> "PubKey", key |-> k]

\* the value returned by the cold_storage callable for an amount
call_cold_storage(f, value) == [type |-> "ColdStorage", fn |-> f, amount |-> value]

(***************************************************************************)
(* TransactionTemplate: outputs plus optional sequence / locktime.         *)
(***************************************************************************)
TransactionTemplate == [outputs |-> <<>>, sequence |-> NoLock, locktime |-> NoLock]

set_sequence(tx, t) == [tx EXCEPT !.sequence = t]

set_locktime(tx, t) == [tx EXCEPT !.locktime = t]

add_output(tx, amount, target) ==
    [tx EXCEPT !.outputs = Append(@, [amount |-> amount, to |-> target])]

\* the outcome of evaluating a path factory on a contract instance:
\* the templates it returns (or the fact that it raised) and the instance
\* as the factory leaves it
Return(tx, self) == [raised |-> FALSE, txs |-> <<tx>>, self |-> self]
Raise(self) == [raised |-> TRUE, txs |-> <<>>, self |-> self]

(***************************************************************************)
(* undo_send.py                                                            *)
(***************************************************************************)
UndoSend(from_contract, to_key, timeout, amount) ==
    [type |-> "UndoSend", from_contract |-> from_contract, to_key |-> to_key,
     amount |-> amount, timeout |-> timeout]

UndoSend2(from_contract, to_contract, timeout, amount) ==
    [type |-> "UndoSend2", from_contract |-> from_contract,
     to_contract |-> to_contract, amount |-> amount, timeout |-> timeout]

UndoSend_undo(self) ==
    Return(add_output(TransactionTemplate, self.amount, self.from_contract), self)

UndoSend2_complete(self) ==
    LET tx0 == set_sequence(TransactionTemplate, self.timeout.time)
        tx1 == add_output(tx0, self.amount, self.to_contract)
    IN  Return(tx1, self)

UndoSend2_undo(self) ==
    Return(add_output(TransactionTemplate, self.amount, self.from_contract), self)

(***************************************************************************)
(* smarter_vault.py                                                        *)
(***************************************************************************)
SmarterVault(cold_storage, hot_storage, n_steps, timeout, mature, amount_step) ==
    [type |-> "SmarterVault", cold_storage |-> cold_storage,
     hot_storage |-> hot_storage, n_steps |-> n_steps,
     amount_step |-> amount_step, timeout |-> timeout, mature |-> mature]

\* step with the sub-vault funded with n_steps * amount_step
step_sub_amount_full(self) ==
    LET tx0 == set_sequence(TransactionTemplate, self.timeout.time)
        tx1 == add_output(tx0, self.amount_step,
                   UndoSend(call_cold_storage(self.cold_storage, self.amount_step),
                            self.hot_storage, self.mature, self.amount_step))
        sub_amount == self.n_steps * self.amount_step
        sub_vault == SmarterVault(self.cold_storage, self.hot_storage,
                                  self.n_steps - 1, self.timeout, self.mature,
                                  self.amount_step)
        tx2 == IF self.n_steps > 1 THEN add_output(tx1, sub_amount, sub_vault)
                                   ELSE tx1
    IN  Return(tx2, self)

\* step that still nests a sub-vault when one step remains
step_nest_at_one(self) ==
    LET tx0 == set_sequence(TransactionTemplate, self.timeout.time)
        tx1 == add_output(tx0, self.amount_step,
                   UndoSend(call_cold_storage(self.cold_storage, self.amount_step),
                            self.hot_storage, self.mature, self.amount_step))
        sub_amount == (self.n_steps - 1) * self.amount_step
        sub_vault == SmarterVault(self.cold_storage, self.hot_storage,
                                  self.n_steps - 1, self.timeout, self.mature,
                                  self.amount_step)
        tx2 == IF self.n_steps >= 1 THEN add_output(tx1, sub_amount, sub_vault)
                                    ELSE tx1
    IN  Return(tx2, self)

step(self) ==
    LET tx0 == set_sequence(TransactionTemplate, self.timeout.time)
        tx1 == add_output(tx0, self.amount_step,
                   UndoSend(call_cold_storage(self.cold_storage, self.amount_step),
                            self.hot_storage, self.mature, self.amount_step))
        sub_amount == (self.n_steps - 1) * self.amount_step
        sub_vault == SmarterVault(self.cold_storage, self.hot_storage,
                                  self.n_steps - 1, self.timeout, self.mature,
                                  self.amount_step)
        tx2 == IF self.n_steps > 1 THEN add_output(tx1, sub_amount, sub_vault)
                                   ELSE tx1
    IN  Return(tx2, self)

to_cold(self) ==
    LET value == self.n_steps * self.amount_step
    IN  Return(add_output(TransactionTemplate, value,
                          call_cold_storage(self.cold_storage, value)), self)

(***************************************************************************)
(* subscription.py                                                         *)
(***************************************************************************)
add_timeout(tx, delay) ==
    IF delay.kind = "Relative" THEN set_sequence(tx, delay.time)
    ELSE IF delay.kind = "Absolute" THEN set_locktime(tx, delay.time)
    ELSE tx

CancellableSubscription(amount, recipient, schedule, return_address, watchtower_key, return_timeout) ==
    [type |-> "CancellableSubscription", amount |-> amount,
     recipient |-> recipient, schedule |-> schedule,
     return_address |-> return_address, watchtower_key |-> watchtower_key,
     return_timeout |-> return_timeout]

CancelContest(amount, recipient, schedule, return_address, watchtower_key, return_timeout) ==
    [type |-> "CancelContest", amount |-> amount,
     recipient |-> recipient, schedule |-> schedule,
     return_address |-> return_address, watchtower_key |-> watchtower_key,
     return_timeout |-> return_timeout]

cancel(self) ==
    LET amount == self.amount
        cc == CancelContest(amount, self.recipient, self.schedule,
                            self.return_address, self.watchtower_key,
                            self.return_timeout)
    IN  Return(add_output(TransactionTemplate, amount, cc), self)

\* claim whose continuation keeps the whole amount
claim_keep_total(self) ==
    IF Len(self.schedule) = 0 THEN Raise(self)
    ELSE
    LET delay == self.schedule[1][1]
        amount == self.schedule[1][2]
        tx0 == add_timeout(TransactionTemplate, delay)
        total_amount == self.amount
        tx1 == add_output(tx0, amount, self.recipient)
        new_amount == total_amount
        tx2 == IF Len(self.schedule) > 1
               THEN add_output(tx1, new_amount,
                        CancellableSubscription(new_amount, self.recipient,
                            SubSeq(self.schedule, 2, Len(self.schedule)),
                            self.return_address, self.watchtower_key,
                            self.return_timeout))
               ELSE tx1
    IN  Return(tx2, self)

\* claim that pays the whole amount to the recipient
claim_pay_total(self) ==
    IF Len(self.schedule) = 0 THEN Raise(self)
    ELSE
    LET delay == self.schedule[1][1]
        amount == self.schedule[1][2]
        tx0 == add_timeout(TransactionTemplate, delay)
        total_amount == self.amount
        tx1 == add_output(tx0, total_amount, self.recipient)
        new_amount == total_amount - amount
        tx2 == IF Len(self.schedule) > 1
               THEN add_output(tx1, new_amount,
                        CancellableSubscription(new_amount, self.recipient,
                            SubSeq(self.schedule, 2, Len(self.schedule)),
                            self.return_address, self.watchtower_key,
                            self.return_timeout))
               ELSE tx1
    IN  Return(tx2, self)

\* claim that returns an empty template on an empty schedule
claim_no_raise(self) ==
    IF Len(self.schedule) = 0 THEN Return(TransactionTemplate, self)
    ELSE
    LET delay == self.schedule[1][1]
        amount == self.schedule[1][2]
        tx0 == add_timeout(TransactionTemplate, delay)
        total_amount == self.amount
        tx1 == add_output(tx0, amount, self.recipient)
        new_amount == total_amount - amount
        tx2 == IF Len(self.schedule) > 1
               THEN add_output(tx1, new_amount,
                        CancellableSubscription(new_amount, self.recipient,
                            SubSeq(self.schedule, 2, Len(self.schedule)),
                            self.return_address, self.watchtower_key,
                            self.return_timeout))
               ELSE tx1
    IN  Return(tx2, self)

\* claim that removes the claimed entry from the schedule of the contract
claim_pop(self) ==
    IF Len(self.schedule) = 0 THEN Raise(self)
    ELSE
    LET delay == self.schedule[1][1]
        amount == self.schedule[1][2]
        tx0 == add_timeout(TransactionTemplate, delay)
        total_amount == self.amount
        tx1 == add_output(tx0, amount, self.recipient)
        new_amount == total_amount - amount
        tx2 == IF Len(self.schedule) > 1
               THEN add_output(tx1, new_amount,
                        CancellableSubscription(new_amount, self.recipient,
                            SubSeq(self.schedule, 2, Len(self.schedule)),
                            self.return_address, self.watchtower_key,
                            self.return_timeout))
               ELSE tx1
    IN  Return(tx2, [self EXCEPT !.schedule = Tail(@)])

claim(self) ==
    IF Len(self.schedule) = 0 THEN Raise(self)
    ELSE
    LET delay == self.schedule[1][1]
        amount == self.schedule[1][2]
        tx0 == add_timeout(TransactionTemplate, delay)
        total_amount == self.amount
        tx1 == add_output(tx0, amount, self.recipient)
        new_amount == total_amount - amount
        tx2 == IF Len(self.schedule) > 1
               THEN add_output(tx1, new_amount,
                        CancellableSubscription(new_amount, self.recipient,
                            SubSeq(self.schedule, 2, Len(self.schedule)),
                            self.return_address, self.watchtower_key,
                            self.return_timeout))
               ELSE tx1
    IN  Return(tx2, self)

\* a generator whose accumulator survives from the previous invocation
counterclaim_start_stale(g) ==
    [active |-> TRUE, amount_earned |-> g.amount_earned, i |-> 1, out |-> <<>>]

\* the local state of a counterclaim generator when it is invoked
counterclaim_start(g) ==
    [active |-> TRUE, amount_earned |-> 0, i |-> 1, out |-> <<>>]

\* an iteration that emits the refund output even when it is zero
counterclaim_iter_zero_refund(self, amount_earned, entry) ==
    LET timeout == entry[1]
        amount == entry[2]
        earned == amount_earned + amount
        amount_refundable == self.amount - earned
        tx0 == add_timeout(TransactionTemplate, timeout)
        tx1 == add_output(tx0, earned, self.recipient)
        tx2 == add_output(tx1, amount_refundable, self.return_address)
    IN  [amount_earned |-> earned, tx |-> tx2]

\* one iteration of the loop of counterclaim over a schedule entry
counterclaim_iter(self, amount_earned, entry) ==
    LET timeout == entry[1]
        amount == entry[2]
        earned == amount_earned + amount
        amount_refundable == self.amount - earned
        tx0 == add_timeout(TransactionTemplate, timeout)
        tx1 == add_output(tx0, earned, self.recipient)
        tx2 == IF amount_refundable # 0
               THEN add_output(tx1, amount_refundable, self.return_address)
               ELSE tx1
    IN  [amount_earned |-> earned, tx |-> tx2]

\* finish_cancel that pays the amount to the recipient as well
finish_cancel_to_both(self) ==
    LET tx0 == set_sequence(TransactionTemplate, self.return_timeout.time)
        amount == self.amount
        return_address == self.return_address
        tx1 == add_output(tx0, amount, self.recipient)
    IN  Return(add_output(tx1, amount, return_address), self)

finish_cancel(self) ==
    LET tx0 == set_sequence(TransactionTemplate, self.return_timeout.time)
        amount == self.amount
        return_address == self.return_address
    IN  Return(add_output(tx0, amount, return_address), self)

(***************************************************************************)
(* Bound contracts the compilation is requested for.                       *)
(***************************************************************************)
RECURSIVE SumSchedule(_)
SumSchedule(schedule) ==
    IF schedule = <<>> THEN 0
    ELSE schedule[1][2] + SumSchedule(Tail(schedule))

ScheduleEntries == AbsoluteTimeSpecs \X (0..MaxPay)
Schedules == UNION {[1..k -> ScheduleEntries] : k \in 0..MaxLen}

\* schedules whose entries are all due at the same height
FlatEntries == {AbsoluteTimeSpec(1)} \X (0..MaxPay)
FlatSchedules == UNION {[1..k -> FlatEntries] : k \in 0..MaxLen}

VaultBindings ==
    {SmarterVault("cold_storage", PayToSegwitAddress("hot"), n, timeout, mature, a) :
        n \in 0..MaxSteps, a \in 0..MaxAmountStep,
        timeout \in TimeSpecs, mature \in TimeSpecs}

UndoSendBindings ==
    {UndoSend(call_cold_storage("cold_storage", a), PubKey("hot"), timeout, a) :
        a \in 0..MaxAmountStep, timeout \in TimeSpecs}

UndoSend2Bindings ==
    {UndoSend2(call_cold_storage("cold_storage", a), PayToSegwitAddress("to"),
               timeout, a) :
        a \in 0..MaxAmountStep, timeout \in TimeSpecs}

Subscriptions(schedules) ==
    {CancellableSubscription(amount, PayToSegwitAddress("recipient"), schedule,
                             PayToSegwitAddress("return"), PubKey("watchtower"),
                             RelativeTimeSpec(1)) :
        amount \in 0..MaxAmount, schedule \in schedules}

\* the subscriptions compiled as root contracts: the heights of a schedule
\* play no part in the amounts or in the paths taken
SubscriptionBindings == Subscriptions(FlatSchedules)

ContestBindings ==
    {CancelContest(amount, PayToSegwitAddress("recipient"), schedule,
                   PayToSegwitAddress("return"), PubKey("watchtower"),
                   RelativeTimeSpec(1)) :
        amount \in 0..MaxAmount, schedule \in Schedules}

Bindings == VaultBindings \cup UndoSendBindings \cup UndoSend2Bindings
            \cup SubscriptionBindings \cup ContestBindings

(***************************************************************************)
(* The compilation driver: a stack of contracts being compiled, each with  *)
(* the paths still to evaluate and the nested contracts still to resolve.  *)
(***************************************************************************)
ContractTypes == {"SmarterVault", "UndoSend", "UndoSend2",
                  "CancellableSubscription", "CancelContest"}

PathNames(c) ==
    CASE c.type = "SmarterVault" -> {"step", "to_cold"}
      [] c.type = "UndoSend" -> {"undo"}
      [] c.type = "UndoSend2" -> {"complete", "undo"}
      [] c.type = "CancellableSubscription" -> {"cancel", "claim"}
      [] c.type = "CancelContest" -> {"counterclaim", "finish_cancel"}
      [] OTHER -> {}

Factory(self, p) ==
    CASE self.type = "SmarterVault" /\ p = "step" -> step(self)
      [] self.type = "SmarterVault" /\ p = "to_cold" -> to_cold(self)
      [] self.type = "UndoSend" /\ p = "undo" -> UndoSend_undo(self)
      [] self.type = "UndoSend2" /\ p = "complete" -> UndoSend2_complete(self)
      [] self.type = "UndoSend2" /\ p = "undo" -> UndoSend2_undo(self)
      [] self.type = "CancellableSubscription" /\ p = "cancel" -> cancel(self)
      [] self.type = "CancellableSubscription" /\ p = "claim" -> claim(self)
      [] self.type = "CancelContest" /\ p = "finish_cancel" -> finish_cancel(self)

Frame(c) == [bound |-> c, self |-> c, todo |-> PathNames(c), pending |-> <<>>]

RECURSIVE NestedOfOutputs(_)
NestedOfOutputs(outputs) ==
    IF outputs = <<>> THEN <<>>
    ELSE (IF outputs[1].to.type \in ContractTypes THEN <<outputs[1].to>> ELSE <<>>)
         \o NestedOfOutputs(Tail(outputs))

RECURSIVE NestedContracts(_)
NestedContracts(txs) ==
    IF txs = <<>> THEN <<>>
    ELSE NestedOfOutputs(txs[1].outputs) \o NestedContracts(Tail(txs))

Top == stack[Len(stack)]
SetTop(f) == [stack EXCEPT ![Len(stack)] = f]
Pop == SubSeq(stack, 1, Len(stack) - 1)

Result(c, p, raised, txs) == [c |-> c, path |-> p, raised |-> raised, txs |-> txs]

GenIdle == [active |-> FALSE, amount_earned |-> 0, i |-> 1, out |-> <<>>]

NoSpend == [path |-> "none"]

IdleChain ==
    /\ now = 0
    /\ since = 0
    /\ returned = 0
    /\ held = 0
    /\ last = NoSpend

IdlePay == kwargs = None

IdleVault ==
    /\ vault = None
    /\ undos = <<>>
    /\ stepTimes = <<>>

IdleConv ==
    /\ arg = <<>>
    /\ pc = "idle"
    /\ out = <<>>

IdleCompile ==
    /\ root = None
    /\ stack = <<>>
    /\ templates = {}
    /\ cache = {}
    /\ gen = GenIdle
    /\ runs = 0
    /\ entered = <<>>

InitSpend ==
    /\ sub0 = None
    /\ live = None
    /\ received = 0
    /\ claims = 0

Init ==
    /\ root \in Bindings
    /\ stack = <<>>
    /\ templates = {}
    /\ cache = {}
    /\ gen = GenIdle
    /\ runs = 0
    /\ entered = <<>>
    /\ InitSpend
    /\ IdleChain /\ IdlePay /\ IdleVault /\ IdleConv

\* the compile request for the root contract
Request ==
    /\ stack = <<>>
    /\ runs = 0
    /\ runs' = 1
    /\ stack' = <<Frame(root)>>
    /\ entered' = <<root>>
    /\ UNCHANGED <<root, templates, cache, gen>>
    /\ UNCHANGED <<spendVars, chainVars, payVars, vaultVars, convVars>>

\* the same contract is compiled a second time, with the cache of the first
\* compilation or without it
Recompile ==
    /\ stack = <<>>
    /\ runs = 1
    /\ runs' = 2
    /\ \E keep \in BOOLEAN :
        /\ cache' = IF keep THEN cache ELSE {}
        /\ IF root \in cache'
           THEN stack' = <<>> /\ entered' = <<>>
           ELSE stack' = <<Frame(root)>> /\ entered' = <<root>>
    /\ UNCHANGED <<root, templates, gen>>
    /\ UNCHANGED <<spendVars, chainVars, payVars, vaultVars, convVars>>

\* recursion into a nested contract that is not yet compiled
Enter ==
    /\ stack # <<>>
    /\ Top.pending # <<>>
    /\ LET c == Head(Top.pending) IN
        /\ c \notin cache
        /\ stack' = Append(SetTop([Top EXCEPT !.pending = Tail(@)]), Frame(c))
        /\ entered' = Append(entered, c)
    /\ UNCHANGED <<root, templates, cache, gen, runs>>
    /\ UNCHANGED <<spendVars, chainVars, payVars, vaultVars, convVars>>

\* a nested contract with a known fingerprint is not compiled again
CacheHit ==
    /\ stack # <<>>
    /\ Top.pending # <<>>
    /\ Head(Top.pending) \in cache
    /\ stack' = SetTop([Top EXCEPT !.pending = Tail(@)])
    /\ UNCHANGED <<root, templates, cache, gen, runs, entered>>
    /\ UNCHANGED <<spendVars, chainVars, payVars, vaultVars, convVars>>

\* evaluation of one path factory of the contract on top of the stack; a
\* factory that raises is reported for that path and the others go on
CompilePath ==
    /\ stack # <<>>
    /\ Top.pending = <<>>
    /\ ~gen.active
    /\ \E p \in Top.todo \ {"counterclaim"} :
        LET r == Factory(Top.self, p) IN
        /\ templates' = templates \cup {Result(Top.bound, p, r.raised, r.txs)}
        /\ stack' = SetTop([Top EXCEPT !.self = r.self, !.todo = @ \ {p},
                                       !.pending = NestedContracts(r.txs)])
    /\ UNCHANGED <<root, cache, gen, runs, entered>>
    /\ UNCHANGED <<spendVars, chainVars, payVars, vaultVars, convVars>>

\* invocation of the counterclaim generator
GenStart ==
    /\ stack # <<>>
    /\ Top.pending = <<>>
    /\ ~gen.active
    /\ "counterclaim" \in Top.todo
    /\ gen' = counterclaim_start(gen)
    /\ UNCHANGED <<root, stack, templates, cache, runs, entered>>
    /\ UNCHANGED <<spendVars, chainVars, payVars, vaultVars, convVars>>

\* one iteration of the generator's loop: one template is yielded
GenNext ==
    /\ gen.active
    /\ gen.i <= Len(Top.self.schedule)
    /\ LET it == counterclaim_iter(Top.self, gen.amount_earned,
                                   Top.self.schedule[gen.i]) IN
        gen' = [gen EXCEPT !.amount_earned = it.amount_earned,
                           !.i = @ + 1, !.out = Append(@, it.tx)]
    /\ UNCHANGED <<root, stack, templates, cache, runs, entered>>
    /\ UNCHANGED <<spendVars, chainVars, payVars, vaultVars, convVars>>

\* the generator is exhausted: its templates are the result of the path
GenFinish ==
    /\ gen.active
    /\ gen.i > Len(Top.self.schedule)
    /\ templates' = templates \cup {Result(Top.bound, "counterclaim", FALSE, gen.out)}
    /\ stack' = SetTop([Top EXCEPT !.todo = @ \ {"counterclaim"},
                                   !.pending = NestedContracts(gen.out)])
    /\ gen' = [gen EXCEPT !.active = FALSE, !.i = 1, !.out = <<>>]
    /\ UNCHANGED <<root, cache, runs, entered>>
    /\ UNCHANGED <<spendVars, chainVars, payVars, vaultVars, convVars>>

\* every path of the contract on top of the stack is done
ReturnFrame ==
    /\ stack # <<>>
    /\ Top.pending = <<>>
    /\ Top.todo = {}
    /\ cache' = cache \cup {Top.bound}
    /\ stack' = Pop
    /\ UNCHANGED <<root, templates, gen, runs, entered>>
    /\ UNCHANGED <<spendVars, chainVars, payVars, vaultVars, convVars>>

Next ==
    \/ Request
    \/ Recompile
    \/ Enter
    \/ CacheHit
    \/ CompilePath
    \/ GenStart
    \/ GenNext
    \/ GenFinish
    \/ ReturnFrame

Spec == Init /\ [][Next]_vars

(***************************************************************************)
(* The compilation of a vault alone, under weak fairness of the driver.    *)
(***************************************************************************)
VaultInit == Init /\ root \in VaultBindings

VaultNext ==
    \/ Request
    \/ Recompile
    \/ Recompile
    \/ Enter
    \/ CacheHit
    \/ CompilePath
    \/ ReturnFrame

VaultSpec == VaultInit /\ [][VaultNext]_vars /\ WF_vars(VaultNext)

(***************************************************************************)
(* Successive claims on a subscription and on its continuations.           *)
(***************************************************************************)
SpendInit ==
    /\ root = None
    /\ stack = <<>>
    /\ templates = {}
    /\ cache = {}
    /\ gen = GenIdle
    /\ runs = 0
    /\ entered = <<>>
    /\ sub0 \in {c \in Subscriptions(Schedules) : Len(c.schedule) >= 1}
    /\ live = sub0
    /\ received = 0
    /\ claims = 0
    /\ IdleChain /\ IdlePay /\ IdleVault /\ IdleConv

\* the claim template of the live subscription is executed
SpendClaim ==
    /\ live.type = "CancellableSubscription"
    /\ LET r == claim(live) IN
        /\ ~r.raised
        /\ LET tx == r.txs[1] IN
            /\ received' = received + tx.outputs[1].amount
            /\ live' = IF Len(tx.outputs) > 1 THEN tx.outputs[2].to ELSE None
    /\ claims' = claims + 1
    /\ UNCHANGED sub0
    /\ UNCHANGED compileVars
    /\ UNCHANGED <<chainVars, payVars, vaultVars, convVars>>

SpendNext == SpendClaim

SpendSpec == SpendInit /\ [][SpendNext]_vars

(***************************************************************************)
(* Properties.                                                             *)
(***************************************************************************)
RECURSIVE SumAmounts(_)
SumAmounts(outputs) ==
    IF outputs = <<>> THEN 0
    ELSE outputs[1].amount + SumAmounts(Tail(outputs))

Cumulative(schedule, i) == SumSchedule(SubSeq(schedule, 1, i))

IsSubscription(c) == c.type \in {"CancellableSubscription", "CancelContest"}

\* a subscription binding whose schedule pays out exactly its amount
ValidBinding(c) ==
    /\ IsSubscription(c)
    /\ c.amount >= 0
    /\ \A i \in 1..Len(c.schedule) : c.schedule[i][2] >= 0
    /\ SumSchedule(c.schedule) = c.amount

C2_VaultTemplates ==
    \A e \in templates :
        (e.c.type = "SmarterVault" /\ e.c.n_steps >= 1) =>
            LET n == e.c.n_steps
                a == e.c.amount_step
                outs == e.txs[1].outputs
            IN  /\ ~e.raised
                /\ Len(e.txs) = 1
                /\ e.path = "step" =>
                    /\ Len(outs) = IF n > 1 THEN 2 ELSE 1
                    /\ outs[1].amount = a
                    /\ outs[1].to.type = "UndoSend"
                    /\ outs[1].to.amount = a
                    /\ outs[1].to.from_contract = call_cold_storage(e.c.cold_storage, a)
                    /\ outs[1].to.timeout = e.c.mature
                    /\ n > 1 =>
                        /\ outs[2].amount = (n - 1) * a
                        /\ outs[2].to = [e.c EXCEPT !.n_steps = n - 1]
                /\ e.path = "to_cold" =>
                    outs = <<[amount |-> n * a,
                              to |-> call_cold_storage(e.c.cold_storage, n * a)]>>

C2_Witness ==
    /\ \E e \in templates :
        /\ e.c.type = "SmarterVault" /\ e.c.n_steps = 3 /\ e.c.amount_step = 1
        /\ e.path = "step"
        /\ e.txs[1].outputs[1].amount = 1 /\ e.txs[1].outputs[2].amount = 2
    /\ \E e \in templates :
        /\ e.c.type = "SmarterVault" /\ e.c.n_steps = 3 /\ e.c.amount_step = 1
        /\ e.path = "to_cold" /\ e.txs[1].outputs[1].amount = 3
    /\ \E e \in templates :
        /\ e.c.type = "SmarterVault" /\ e.c.n_steps = 1 /\ e.path = "step"
        /\ Len(e.txs[1].outputs) = 1

\* C3: counterclaim on a schedule of K entries yields K templates in schedule
\* order; template i pays the recipient the cumulative schedule amount up to
\* entry i (non-decreasing in i), carries the locktime of entry i and has a
\* second output of amount minus that sum to return_address, which is left
\* out (not emitted with value zero) when nothing remains to refund
C3_CounterclaimTemplates ==
    \A e \in templates :
        (e.c.type = "CancelContest" /\ e.path = "counterclaim") =>
            /\ ~e.raised
            /\ Len(e.txs) = Len(e.c.schedule)
            /\ \A i \in 1..Len(e.txs) :
                LET tx == e.txs[i]
                    earned == Cumulative(e.c.schedule, i)
                    refund == e.c.amount - earned
                IN  /\ tx.outputs[1] = [amount |-> earned, to |-> e.c.recipient]
                    /\ tx.locktime = e.c.schedule[i][1].time
                    /\ tx.sequence = NoLock
                    /\ IF refund = 0
                       THEN Len(tx.outputs) = 1
                       ELSE /\ Len(tx.outputs) = 2
                            /\ tx.outputs[2] = [amount |-> refund,
                                                to |-> e.c.return_address]
            /\ \A i, j \in 1..Len(e.txs) :
                i <= j => e.txs[i].outputs[1].amount <= e.txs[j].outputs[1].amount

C3_Witness ==
    \E e \in templates :
        /\ e.c.type = "CancelContest" /\ e.path = "counterclaim"
        /\ e.c.amount = 2
        /\ e.c.schedule = <<<<AbsoluteTimeSpec(1), 1>>, <<AbsoluteTimeSpec(2), 1>>>>
        /\ Len(e.txs) = 2
        /\ Len(e.txs[1].outputs) = 2 /\ e.txs[1].outputs[2].amount = 1
        /\ Len(e.txs[2].outputs) = 1 /\ e.txs[2].outputs[1].amount = 2

\* C4 (as stated): once claim has been executed on the subscription and on
\* every continuation, the recipient has received the amount of the
\* subscription
C4_TotalEqualsAmount ==
    (live = None /\ claims > 0) =>
        /\ claims = Len(sub0.schedule)
        /\ received = sub0.amount

\* C4 (amended): each claim pays the first remaining schedule entry and, while
\* entries remain, leaves amount minus the paid entries in a continuation
\* bound to the rest of the schedule; after the K claims the recipient has
\* received the sum of the schedule amounts, which is the amount of the
\* subscription when the schedule sums to it
C4_TotalEqualsScheduleSum ==
    sub0 # None =>
        /\ claims <= Len(sub0.schedule)
        /\ received = Cumulative(sub0.schedule, claims)
        /\ live # None =>
            /\ claims < Len(sub0.schedule)
            /\ live = [sub0 EXCEPT
                        !.amount = sub0.amount - received,
                        !.schedule = SubSeq(sub0.schedule, claims + 1,
                                            Len(sub0.schedule))]
        /\ live = None =>
            /\ claims = Len(sub0.schedule)
            /\ received = SumSchedule(sub0.schedule)
            /\ SumSchedule(sub0.schedule) = sub0.amount => received = sub0.amount

C4_Witness ==
    /\ sub0 # None
    /\ live = None
    /\ claims = 2
    /\ Len(sub0.schedule) = 2
    /\ sub0.schedule[1][2] = 1
    /\ received = 2
    /\ received = sub0.amount

VaultsOf(seq) == SelectSeq(seq, LAMBDA c : c.type = "SmarterVault")

CompileDone == stack = <<>> /\ runs >= 1

C5_Levels ==
    /\ \A i, j \in 1..Len(stack) :
        (i < j /\ stack[i].bound.type = "SmarterVault"
               /\ stack[j].bound.type = "SmarterVault")
            => stack[j].bound.n_steps < stack[i].bound.n_steps
    /\ \A e \in templates :
        (e.c.type = "SmarterVault" /\ e.path = "step" /\ e.c.n_steps >= 1) =>
            \A k \in 1..Len(e.txs[1].outputs) :
                e.txs[1].outputs[k].to.type = "SmarterVault" =>
                    /\ e.c.n_steps > 1
                    /\ e.txs[1].outputs[k].to.n_steps < e.c.n_steps
    /\ (CompileDone /\ entered # <<>> /\ root.type = "SmarterVault"
            /\ root.n_steps >= 1) =>
        LET vs == VaultsOf(entered) IN
            /\ Len(vs) = root.n_steps
            /\ \A k \in 1..Len(vs) : vs[k].n_steps = root.n_steps - k + 1

\* C5: the compilation of a vault with n_steps = N >= 1 terminates after
\* resolving exactly the N vaults with n_steps = N, N-1, ..., 1: step nests
\* only a vault with strictly fewer steps, and none when one step remains
C5_VaultRecursion == [](C5_Levels) /\ <>(CompileDone)

C5_Witness ==
    /\ CompileDone
    /\ root.type = "SmarterVault"
    /\ root.n_steps = 3
    /\ Len(VaultsOf(entered)) = 3
    /\ \E e \in templates :
        /\ e.c.type = "SmarterVault" /\ e.c.n_steps = 1 /\ e.path = "step"
        /\ Len(e.txs[1].outputs) = 1

\* C6: whatever the order of the compilations and whether or not the cache
\* is used, one contract and path never has two different results, and an
\* invocation of the counterclaim generator starts from amount_earned = 0
C6_Deterministic ==
    /\ \A e1, e2 \in templates :
        (e1.c = e2.c /\ e1.path = e2.path) => e1 = e2
    /\ (gen.active /\ gen.out = <<>>) => gen.amount_earned = 0

C6_Witness ==
    /\ runs = 2
    /\ stack = <<>>
    /\ entered # <<>>
    /\ root.type = "CancelContest"
    /\ \E e \in templates :
        /\ e.c = root /\ e.path = "counterclaim"
        /\ Len(e.txs) = 2 /\ e.txs[2].outputs[1].amount > 0

\* the template applies the time of the spec through the setter of its kind
LockMatches(spec, tx) ==
    IF spec.kind = "Relative"
    THEN tx.sequence = spec.time /\ tx.locktime = NoLock
    ELSE tx.locktime = spec.time /\ tx.sequence = NoLock

\* C7: every timelock a path places on a template matches the kind of its
\* TimeSpec: Relative only through set_sequence, Absolute only through
\* set_locktime (add_timeout, step, complete, finish_cancel, claim,
\* counterclaim)
C7_TimelockKinds ==
    /\ \A spec \in TimeSpecs : LockMatches(spec, add_timeout(TransactionTemplate, spec))
    /\ \A e \in templates : \A i \in 1..Len(e.txs) :
        /\ (e.c.type = "SmarterVault" /\ e.path = "step")
            => LockMatches(e.c.timeout, e.txs[i])
        /\ (e.c.type = "UndoSend2" /\ e.path = "complete")
            => LockMatches(e.c.timeout, e.txs[i])
        /\ (e.c.type = "CancelContest" /\ e.path = "finish_cancel")
            => LockMatches(e.c.return_timeout, e.txs[i])
        /\ (e.c.type = "CancellableSubscription" /\ e.path = "claim")
            => LockMatches(e.c.schedule[1][1], e.txs[i])
        /\ (e.c.type = "CancelContest" /\ e.path = "counterclaim")
            => LockMatches(e.c.schedule[i][1], e.txs[i])

HasResult(c, p) == \E e \in templates : e.c = c /\ e.path = p

ResultOf(c, p) == CHOOSE e \in templates : e.c = c /\ e.path = p

\* C8: a path whose factory raises is reported as failed for that path and
\* its siblings are still compiled: on an empty schedule claim fails, cancel
\* is compiled, and the nested cancel-contest has a counterclaim without
\* templates and a compiled finish_cancel
C8_PathFailureIsolated ==
    /\ \A e \in templates : e.raised => e.txs = <<>>
    /\ \A c \in cache : \A p \in PathNames(c) : HasResult(c, p)
    /\ \A c \in cache :
        (c.type = "CancellableSubscription" /\ c.schedule = <<>>) =>
            /\ ResultOf(c, "claim").raised
            /\ ~ResultOf(c, "cancel").raised
            /\ Len(ResultOf(c, "cancel").txs) = 1
            /\ LET cc == ResultOf(c, "cancel").txs[1].outputs[1].to IN
                /\ cc.type = "CancelContest"
                /\ cc.schedule = <<>>
                /\ cc \in cache
                /\ ~ResultOf(cc, "counterclaim").raised
                /\ ResultOf(cc, "counterclaim").txs = <<>>
                /\ ~ResultOf(cc, "finish_cancel").raised
                /\ Len(ResultOf(cc, "finish_cancel").txs) = 1

C8_Witness ==
    /\ root.type = "CancellableSubscription"
    /\ root.schedule = <<>>
    /\ root \in cache
    /\ ResultOf(root, "claim").raised
    /\ Len(ResultOf(root, "cancel").txs) = 1

\* C9: for a cancel-contest with non-negative amount and schedule amounts,
\* no counterclaim template has a negative output, and the refund output is
\* there exactly when amount minus the earned amount is greater than 0
C9_NoNegativeRefund ==
    \A e \in templates :
        (e.c.type = "CancelContest" /\ e.path = "counterclaim"
            /\ e.c.amount >= 0
            /\ \A i \in 1..Len(e.c.schedule) : e.c.schedule[i][2] >= 0) =>
            \A i \in 1..Len(e.txs) :
                /\ \A k \in 1..Len(e.txs[i].outputs) :
                    e.txs[i].outputs[k].amount >= 0
                /\ Len(e.txs[i].outputs) = 2
                    <=> e.c.amount - Cumulative(e.c.schedule, i) > 0

\* C10: no path factory changes the contract it is invoked on: the instance
\* being compiled keeps the fields it was bound to, and each template of a
\* path is the one the path gives on the bound fields, whatever paths ran
\* before it
C10_NoMutation ==
    /\ \A i \in 1..Len(stack) : stack[i].self = stack[i].bound
    /\ \A e \in templates :
        e.path # "counterclaim" =>
            /\ e.raised = Factory(e.c, e.path).raised
            /\ e.txs = Factory(e.c, e.path).txs

C10_Witness ==
    /\ stack # <<>>
    /\ Top.bound.type = "CancellableSubscription"
    /\ Len(Top.bound.schedule) = 2
    /\ Top.todo = {"cancel"}
    /\ Top.self.schedule = Top.bound.schedule
    /\ HasResult(Top.bound, "claim")

\* C11: for a vault with n_steps >= 0 and amount_step >= 0, the outputs of each
\* template of step and to_cold sum to at most n_steps * amount_step, and to
\* exactly that for n_steps >= 1
C11_VaultWithinAmount ==
    \A e \in templates :
        (e.c.type = "SmarterVault" /\ e.c.n_steps >= 0 /\ e.c.amount_step >= 0) =>
            \A i \in 1..Len(e.txs) :
                /\ SumAmounts(e.txs[i].outputs) <= e.c.n_steps * e.c.amount_step
                /\ e.c.n_steps >= 1 =>
                    SumAmounts(e.txs[i].outputs) = e.c.n_steps * e.c.amount_step

\* the fields each contract type declares, with their declared types
SmarterVault_Fields ==
    [cold_storage |-> "Callable", hot_storage |-> "Contract", n_steps |-> "int",
     amount_step |-> "Amount", timeout |-> "TimeSpec", mature |-> "TimeSpec"]

UndoSend_Fields ==
    [from_contract |-> "Contract", to_key |-> "PubKey", amount |-> "Amount",
     timeout |-> "TimeSpec"]

UndoSend2_Fields ==
    [from_contract |-> "Contract", to_contract |-> "Contract",
     amount |-> "Amount", timeout |-> "TimeSpec"]

CancellableSubscription_Fields ==
    [amount |-> "Amount", recipient |-> "PayToSegwitAddress",
     schedule |-> "Schedule", return_address |-> "PayToSegwitAddress",
     watchtower_key |-> "PubKey", return_timeout |-> "RelativeTimeSpec"]

CancelContest_Fields ==
    [amount |-> "Amount", recipient |-> "Contract", schedule |-> "Schedule",
     return_address |-> "Contract", watchtower_key |-> "PubKey",
     return_timeout |-> "RelativeTimeSpec"]

DeclaredFields(t) ==
    CASE t = "SmarterVault" -> SmarterVault_Fields
      [] t = "UndoSend" -> UndoSend_Fields
      [] t = "UndoSend2" -> UndoSend2_Fields
      [] t = "CancellableSubscription" -> CancellableSubscription_Fields
      [] t = "CancelContest" -> CancelContest_Fields

\* the value has the shape of the declared type
Conforms(v, T) ==
    CASE T = "Contract" ->
            v.type \in ContractTypes \cup {"PayToSegwitAddress", "ColdStorage"}
      [] T = "PayToSegwitAddress" -> v.type = "PayToSegwitAddress"
      [] T = "PubKey" -> v.type = "PubKey"
      [] T = "Amount" -> v \in Int
      [] T = "int" -> v \in Int
      [] T = "TimeSpec" -> v.kind \in {"Relative", "Absolute"}
      [] T = "RelativeTimeSpec" -> v.kind = "Relative"
      [] T = "AbsoluteTimeSpec" -> v.kind = "Absolute"
      [] T = "Schedule" ->
            \A i \in 1..Len(v) : v[i][1].kind = "Absolute" /\ v[i][2] \in Int
      [] T = "Callable" -> v \in {"cold_storage"}

FullyBound(c) == DOMAIN c = DOMAIN DeclaredFields(c.type) \cup {"type"}

TypeCorrect(c) ==
    \A f \in DOMAIN DeclaredFields(c.type) : Conforms(c[f], DeclaredFields(c.type)[f])

\* C12: every nested contract a path of a well-bound contract constructs has
\* a value for each field its Fields declare, of the declared type
C12_NestedWellBound ==
    \A e \in templates :
        (FullyBound(e.c) /\ TypeCorrect(e.c)) =>
            \A i \in 1..Len(e.txs) : \A k \in 1..Len(e.txs[i].outputs) :
                LET c == e.txs[i].outputs[k].to IN
                    c.type \in ContractTypes => FullyBound(c) /\ TypeCorrect(c)

(***************************************************************************)
(* Guard clauses and their satisfaction by a spending transaction.         *)
(***************************************************************************)
SignatureCheckClause(key) == [op |-> "sig", key |-> key]
AfterClause(spec) == [op |-> "after", spec |-> spec]
AndClause(a, b) == [op |-> "and", left |-> a, right |-> b]

\* the time of the spec has been reached: an absolute one on the chain, a
\* relative one since the confirmation of the output being spent
Elapsed(spec, t, confirmed) ==
    IF spec.kind = "Relative" THEN t - confirmed >= spec.time
                              ELSE t >= spec.time

RECURSIVE Satisfied(_, _)
Satisfied(clause, ctx) ==
    CASE clause.op = "sig" -> clause.key \in ctx.signers
      [] clause.op = "after" -> Elapsed(clause.spec, ctx.now, ctx.since)
      [] clause.op = "and" -> Satisfied(clause.left, ctx) /\ Satisfied(clause.right, ctx)

\* a template can be used at a time when its locktime is reached and its
\* sequence has passed since the confirmation of the output it spends
Spendable(tx, t, confirmed) ==
    /\ tx.locktime # NoLock => t >= tx.locktime
    /\ tx.sequence # NoLock => t - confirmed >= tx.sequence
    /\ \A k \in 1..Len(tx.outputs) : tx.outputs[k].amount >= 0

Horizon == MaxPeriod * MaxTimes + MaxTime

(***************************************************************************)
(* subscription.py: the guard and the whole sequence of counterclaim, and  *)
(* auto_pay.                                                               *)
(***************************************************************************)
counterclaim_guard(self) == SignatureCheckClause(self.watchtower_key)

RECURSIVE counterclaim_from(_, _, _)
counterclaim_from(self, amount_earned, i) ==
    IF i > Len(self.schedule) THEN <<>>
    ELSE LET it == counterclaim_iter(self, amount_earned, self.schedule[i])
         IN  <<it.tx>> \o counterclaim_from(self, it.amount_earned, i + 1)

counterclaim(self) ==
    counterclaim_from(self, counterclaim_start(GenIdle).amount_earned, 1)

\* auto_pay with the heights counted from zero
auto_pay_from_zero(kw) ==
    LET period == kw.period
        times == kw.times
        per_time == kw.per_time
        rest == [k \in DOMAIN kw \ {"period", "times", "per_time"} |-> kw[k]]
        schedule == [t1 \in 1..times |->
                        <<AbsoluteTimeSpec((t1 - 1) * period), per_time>>]
        amount == per_time * times
    IN  [k \in DOMAIN rest \cup {"type", "schedule", "amount"} |->
            CASE k = "type" -> "CancellableSubscription"
              [] k = "schedule" -> schedule
              [] k = "amount" -> amount
              [] OTHER -> rest[k]]

\* entry t (0-based) of the schedule is entry t1 = t + 1 of the sequence
auto_pay(kw) ==
    LET period == kw.period
        times == kw.times
        per_time == kw.per_time
        rest == [k \in DOMAIN kw \ {"period", "times", "per_time"} |-> kw[k]]
        schedule == [t1 \in 1..times |->
                        <<AbsoluteTimeSpec(t1 * period), per_time>>]
        amount == per_time * times
    IN  [k \in DOMAIN rest \cup {"type", "schedule", "amount"} |->
            CASE k = "type" -> "CancellableSubscription"
              [] k = "schedule" -> schedule
              [] k = "amount" -> amount
              [] OTHER -> rest[k]]

AutoPayKwargs ==
    [period : 0..MaxPeriod, times : 0..MaxTimes, per_time : 0..MaxPay,
     recipient : {PayToSegwitAddress("recipient")},
     return_address : {PayToSegwitAddress("return")},
     watchtower_key : {PubKey("watchtower")},
     return_timeout : RelativeTimeSpecs]

(***************************************************************************)
(* The life of a funded subscription: time passes and the templates of     *)
(* the live output are used to spend it.                                   *)
(***************************************************************************)
RECURSIVE AmountTo(_, _)
AmountTo(outputs, target) ==
    IF outputs = <<>> THEN 0
    ELSE (IF outputs[1].to = target THEN outputs[1].amount ELSE 0)
         + AmountTo(Tail(outputs), target)

\* the output of a template that is itself a contract, with its amount
ContractOutput(tx) ==
    LET nested == SelectSeq(tx.outputs, LAMBDA o : o.to.type \in ContractTypes)
    IN  IF nested = <<>> THEN [amount |-> 0, to |-> None] ELSE nested[1]

\* the live output is spent by the template tx of the path p
Spend(tx, p, i) ==
    /\ Spendable(tx, now, since)
    /\ received' = received + AmountTo(tx.outputs, live.recipient)
    /\ returned' = returned + AmountTo(tx.outputs, live.return_address)
    /\ live' = ContractOutput(tx).to
    /\ held' = ContractOutput(tx).amount
    /\ since' = now
    /\ last' = [path |-> p, i |-> i, at |-> now, c |-> live,
                paid |-> AmountTo(tx.outputs, live.recipient)]
    /\ UNCHANGED <<sub0, now, kwargs>>
    /\ UNCHANGED <<compileVars, vaultVars, convVars>>

Tick ==
    /\ now < Horizon
    /\ now' = now + 1
    /\ UNCHANGED <<since, returned, held, last>>
    /\ UNCHANGED <<compileVars, spendVars, payVars, vaultVars, convVars>>

ChainClaim ==
    /\ live.type = "CancellableSubscription"
    /\ ~claim(live).raised
    /\ claims' = claims + 1
    /\ Spend(claim(live).txs[1], "claim", 1)

ChainCancel ==
    /\ live.type = "CancellableSubscription"
    /\ UNCHANGED claims
    /\ Spend(cancel(live).txs[1], "cancel", 1)

ChainCounterclaim ==
    /\ live.type = "CancelContest"
    /\ \E signers \in SUBSET {live.watchtower_key} :
        Satisfied(counterclaim_guard(live),
                  [signers |-> signers, now |-> now, since |-> since])
    /\ UNCHANGED claims
    /\ \E i \in 1..Len(counterclaim(live)) :
        Spend(counterclaim(live)[i], "counterclaim", i)

ChainFinishCancel ==
    /\ live.type = "CancelContest"
    /\ UNCHANGED claims
    /\ Spend(finish_cancel(live).txs[1], "finish_cancel", 1)

\* a subscription of any admitted binding is funded with its amount
ContestInit ==
    /\ IdleCompile /\ IdlePay /\ IdleVault /\ IdleConv
    /\ sub0 \in Subscriptions(Schedules)
    /\ live = sub0
    /\ received = 0
    /\ claims = 0
    /\ now = 0
    /\ since = 0
    /\ returned = 0
    /\ held = sub0.amount
    /\ last = NoSpend

ContestNext ==
    \/ Tick
    \/ ChainClaim
    \/ ChainCancel
    \/ ChainCounterclaim
    \/ ChainFinishCancel

ContestSpec == ContestInit /\ [][ContestNext]_vars

\* the arguments of auto_pay, before the subscription is built
AutoPayInit ==
    /\ IdleCompile /\ IdleVault /\ IdleConv /\ IdleChain
    /\ kwargs \in AutoPayKwargs
    /\ sub0 = None
    /\ live = None
    /\ received = 0
    /\ claims = 0

\* auto_pay builds the subscription, which is funded with its amount
AutoPay ==
    /\ sub0 = None
    /\ sub0' = auto_pay(kwargs)
    /\ live' = sub0'
    /\ held' = sub0'.amount
    /\ since' = now
    /\ UNCHANGED <<received, claims, now, returned, last, kwargs>>
    /\ UNCHANGED <<compileVars, vaultVars, convVars>>

AutoPayNext ==
    \/ AutoPay
    \/ Tick
    \/ ChainClaim
    \/ ChainCancel
    \/ ChainCounterclaim
    \/ ChainFinishCancel

AutoPaySpec == AutoPayInit /\ [][AutoPayNext]_vars

\* the schedule amounts whose time is reached at time t
RECURSIVE DueBy(_, _)
DueBy(schedule, t) ==
    IF schedule = <<>> THEN 0
    ELSE (IF schedule[1][1].time <= t THEN schedule[1][2] ELSE 0)
         + DueBy(Tail(schedule), t)

\* C13: counterclaim template i is spent only once the time of schedule entry
\* i is reached, and it pays the recipient no more than the sum of the
\* schedule amounts whose time is reached when it is spent
C13_CounterclaimOnlyDue ==
    last.path = "counterclaim" =>
        /\ last.at >= last.c.schedule[last.i][1].time
        /\ last.paid <= DueBy(last.c.schedule, last.at)

\* C14: for a subscription built by auto_pay and funded with per_time * times,
\* what the recipient received, what went to return_address and what the
\* live output holds always add up to per_time * times
C14_FundsConserved ==
    sub0 # None =>
        received + returned + held = kwargs.per_time * kwargs.times

C14_Witness ==
    /\ sub0 # None
    /\ last.path = "counterclaim"
    /\ received > 0
    /\ returned > 0
    /\ held = 0

\* C17: auto_pay builds a subscription whose schedule has `times` entries,
\* entry t (0-based) being (height (t+1)*period, per_time), whose amount is
\* per_time * times, equal to the sum of the schedule, with strictly
\* increasing heights when period > 0; the other keyword arguments are passed
\* unchanged and period, times and per_time are not passed
C17_AutoPay ==
    sub0 # None =>
        /\ sub0.type = "CancellableSubscription"
        /\ Len(sub0.schedule) = kwargs.times
        /\ \A t \in 0..(kwargs.times - 1) :
            sub0.schedule[t + 1] =
                <<AbsoluteTimeSpec((t + 1) * kwargs.period), kwargs.per_time>>
        /\ sub0.amount = kwargs.per_time * kwargs.times
        /\ SumSchedule(sub0.schedule) = sub0.amount
        /\ kwargs.period > 0 =>
            \A i, j \in 1..Len(sub0.schedule) :
                i < j => sub0.schedule[i][1].time < sub0.schedule[j][1].time
        /\ \A k \in DOMAIN kwargs \ {"period", "times", "per_time"} :
            sub0[k] = kwargs[k]
        /\ DOMAIN sub0 = (DOMAIN kwargs \ {"period", "times", "per_time"})
                            \cup {"type", "schedule", "amount"}

C17_Witness ==
    /\ sub0 # None
    /\ kwargs.period = 2
    /\ kwargs.times = 2
    /\ kwargs.per_time = 1
    /\ sub0.schedule = <<<<AbsoluteTimeSpec(2), 1>>, <<AbsoluteTimeSpec(4), 1>>>>
    /\ sub0.amount = 2

(***************************************************************************)
(* undo_send.py: the guards of UndoSend.                                   *)
(***************************************************************************)
\* the unlock of UndoSend without its timeout
UndoSend_unlock_no_timeout(self) == SignatureCheckClause(self.to_key)

UndoSend_unlock(self) ==
    AndClause(AfterClause(self.timeout), SignatureCheckClause(self.to_key))

UndoSend_undo_guard(self) == SignatureCheckClause(self.to_key)

(***************************************************************************)
(* The life of a funded vault: step and to_cold spend the vault output,    *)
(* unlock and undo spend the UndoSend outputs that step released.          *)
(***************************************************************************)
OutputsOf(tx, type) == SelectSeq(tx.outputs, LAMBDA o : o.to.type = type)

\* the time span in which every step of a vault of timeout 1 can be taken and
\* the amounts released before the last one can mature
VaultHorizon == MaxSteps + 1

\* the vaults whose timeout is of the relative kind that step makes of it
ChainVaults == {v \in VaultBindings : v.timeout.kind = "Relative"}

VaultChainInit ==
    /\ IdleCompile /\ InitSpend /\ IdleChain /\ IdlePay /\ IdleConv
    /\ \E v \in ChainVaults :
        /\ vault = [funded |-> v, live |-> v]
    /\ undos = <<>>
    /\ stepTimes = <<>>

VaultTick ==
    /\ now < VaultHorizon
    /\ now' = now + 1
    /\ UNCHANGED <<since, returned, held, last>>
    /\ UNCHANGED <<compileVars, spendVars, payVars, vaultVars, convVars>>

VaultStep ==
    /\ vault.live # None
    /\ LET tx == step(vault.live).txs[1]
           released == OutputsOf(tx, "UndoSend")
           subs == OutputsOf(tx, "SmarterVault")
       IN  /\ Spendable(tx, now, since)
           /\ undos' = undos \o [k \in 1..Len(released) |->
                           [c |-> released[k].to, amount |-> released[k].amount,
                            since |-> now]]
           /\ vault' = [vault EXCEPT
                           !.live = IF subs = <<>> THEN None ELSE subs[1].to]
           /\ held' = IF subs = <<>> THEN 0 ELSE subs[1].amount
           /\ stepTimes' = Append(stepTimes, now)
           /\ since' = now
           /\ last' = [path |-> "step", at |-> now, c |-> vault.live,
                       since |-> since,
                       paid |-> AmountTo(tx.outputs, released[1].to),
                       to |-> released[1].to]
    /\ UNCHANGED <<now, returned>>
    /\ UNCHANGED <<compileVars, spendVars, payVars, convVars>>

VaultToCold ==
    /\ vault.live # None
    /\ LET tx == to_cold(vault.live).txs[1]
       IN  /\ Spendable(tx, now, since)
           /\ returned' = returned + tx.outputs[1].amount
           /\ last' = [path |-> "to_cold", at |-> now, c |-> vault.live,
                       since |-> since, paid |-> tx.outputs[1].amount,
                       to |-> tx.outputs[1].to]
    /\ vault' = [vault EXCEPT !.live = None]
    /\ held' = 0
    /\ since' = now
    /\ UNCHANGED <<now, undos, stepTimes>>
    /\ UNCHANGED <<compileVars, spendVars, payVars, convVars>>

\* the undo send j leaves the unspent outputs
Remove(seq, j) == SubSeq(seq, 1, j - 1) \o SubSeq(seq, j + 1, Len(seq))

UndoSendUnlock ==
    /\ \E j \in 1..Len(undos) :
        /\ \E signers \in SUBSET {undos[j].c.to_key} :
            Satisfied(UndoSend_unlock(undos[j].c),
                      [signers |-> signers, now |-> now, since |-> undos[j].since])
        /\ received' = received + undos[j].amount
        /\ last' = [path |-> "unlock", at |-> now, c |-> undos[j].c,
                    since |-> undos[j].since, paid |-> undos[j].amount,
                    to |-> undos[j].c.to_key]
        /\ undos' = Remove(undos, j)
    /\ UNCHANGED <<sub0, live, claims, now, since, returned, held>>
    /\ UNCHANGED <<vault, stepTimes>>
    /\ UNCHANGED <<compileVars, payVars, convVars>>

UndoSendUndo ==
    /\ \E j \in 1..Len(undos) :
        LET tx == UndoSend_undo(undos[j].c).txs[1]
        IN  /\ \E signers \in SUBSET {undos[j].c.to_key} :
                Satisfied(UndoSend_undo_guard(undos[j].c),
                          [signers |-> signers, now |-> now,
                           since |-> undos[j].since])
            /\ Spendable(tx, now, undos[j].since)
            /\ returned' = returned + tx.outputs[1].amount
            /\ last' = [path |-> "undo", at |-> now, c |-> undos[j].c,
                        since |-> undos[j].since, paid |-> tx.outputs[1].amount,
                        to |-> tx.outputs[1].to]
            /\ undos' = Remove(undos, j)
    /\ UNCHANGED <<now, since, held>>
    /\ UNCHANGED <<vault, stepTimes>>
    /\ UNCHANGED <<compileVars, spendVars, payVars, convVars>>

VaultChainNext ==
    \/ VaultTick
    \/ VaultStep
    \/ VaultToCold
    \/ UndoSendUnlock
    \/ UndoSendUndo

VaultChainSpec == VaultChainInit /\ [][VaultChainNext]_vars

\* the unlock of an unspent UndoSend output can be satisfied now
CanUnlock(u) ==
    \E signers \in SUBSET {u.c.to_key} :
        Satisfied(UndoSend_unlock(u.c),
                  [signers |-> signers, now |-> now, since |-> u.since])

CanUndo(u) ==
    \E signers \in SUBSET {u.c.to_key} :
        Satisfied(UndoSend_undo_guard(u.c),
                  [signers |-> signers, now |-> now, since |-> u.since])

\* C15: an UndoSend output is released by the to_key unlock only after its
\* timeout has elapsed; before that only undo can spend it, and undo sends
\* exactly amount to from_contract; so an amount_step released by a vault
\* step, until mature has elapsed, can only move to cold_storage(amount_step)
C15_UndoSendHeldUntilMature ==
    /\ last.path = "unlock" =>
        /\ Elapsed(last.c.timeout, last.at, last.since)
        /\ last.c.timeout = vault.funded.mature
    /\ last.path = "undo" =>
        /\ last.paid = last.c.amount
        /\ last.to = last.c.from_contract
        /\ last.paid = vault.funded.amount_step
        /\ last.to = call_cold_storage(vault.funded.cold_storage,
                                       vault.funded.amount_step)
    /\ \A j \in 1..Len(undos) :
        ~Elapsed(vault.funded.mature, now, undos[j].since) =>
            /\ ~CanUnlock(undos[j])
            /\ CanUndo(undos[j])
            /\ UndoSend_undo(undos[j].c).txs[1].outputs =
                <<[amount |-> vault.funded.amount_step,
                   to |-> call_cold_storage(vault.funded.cold_storage,
                                            vault.funded.amount_step)]>>

C15_Witness ==
    /\ last.path = "unlock"
    /\ last.paid > 0
    /\ last.c.timeout.kind = "Relative"
    /\ last.at - last.since = last.c.timeout.time
    /\ returned > 0
    /\ Len(undos) > 0
    /\ ~Elapsed(vault.funded.mature, now, undos[1].since)

Min(a, b) == IF a <= b THEN a ELSE b

\* C16: the k-th step spend of an N-step vault occurs no earlier than
\* k * timeout after the vault was funded, at most N step spends occur, and
\* by any time t at most min(N, t / timeout) * amount_step has left the vault
\* through step
C16_RateLimited ==
    LET N == vault.funded.n_steps
        timeout == vault.funded.timeout.time
    IN  /\ \A k \in 1..Len(stepTimes) : stepTimes[k] >= k * timeout
        /\ Len(stepTimes) <= N
        /\ Len(stepTimes) * vault.funded.amount_step
            <= Min(N, now \div timeout) * vault.funded.amount_step

\* the rate limit on the vaults of at least one step
C16_RateLimitedFromOneStep == vault.funded.n_steps >= 1 => C16_RateLimited

(***************************************************************************)
(* payments.py: convert validates the payment list against the schema and  *)
(* then converts its elements in order.                                    *)
(***************************************************************************)
Addresses == {"addr1", "addr2"}

\* the dicts a request can carry: well-formed ones, and ones without an
\* address or with a negative amount
AddrDicts ==
    [amount : 0..MaxAmount, address : Addresses]
        \cup {[amount |-> 1], [amount |-> -1, address |-> "addr1"]}

PayDicts == UNION {[1..k -> AddrDicts] : k \in 0..MaxLen}

\* address.schema: an object with an address and a non-negative amount
address_schema(p) ==
    /\ DOMAIN p = {"amount", "address"}
    /\ p.amount >= 0

\* address.convert: the (Amount, contract) pair of a dict, or an error
address_convert(p) ==
    IF address_schema(p)
    THEN [raised |-> FALSE, value |-> <<p.amount, PayToSegwitAddress(p.address)>>]
    ELSE [raised |-> TRUE]

\* a validation that looks at the first element only
validate_first(a) == a = <<>> \/ address_schema(a[1])

\* validator.validate: every item of the array matches address.schema
validate(a) == \A k \in 1..Len(a) : address_schema(a[k])

ConvertInit ==
    /\ IdleCompile /\ InitSpend /\ IdleChain /\ IdlePay /\ IdleVault
    /\ arg \in PayDicts
    /\ pc = "idle"
    /\ out = <<>>

\* line 20: validator.validate(arg) raises or lets the conversion start
ConvertValidate ==
    /\ pc = "idle"
    /\ pc' = IF validate(arg) THEN "converting" ELSE "raised"
    /\ UNCHANGED <<arg, out>>
    /\ UNCHANGED <<compileVars, spendVars, chainVars, payVars, vaultVars>>

\* line 21: map converts the next element
ConvertElement ==
    /\ pc = "converting"
    /\ Len(out) < Len(arg)
    /\ LET r == address_convert(arg[Len(out) + 1])
       IN  IF r.raised
           THEN pc' = "raised" /\ out' = out
           ELSE pc' = pc /\ out' = Append(out, r.value)
    /\ UNCHANGED arg
    /\ UNCHANGED <<compileVars, spendVars, chainVars, payVars, vaultVars>>

\* line 21: the list of the converted elements is returned
ConvertReturn ==
    /\ pc = "converting"
    /\ Len(out) = Len(arg)
    /\ pc' = "done"
    /\ UNCHANGED <<arg, out>>
    /\ UNCHANGED <<compileVars, spendVars, chainVars, payVars, vaultVars>>

ConvertNext ==
    \/ ConvertValidate
    \/ ConvertElement
    \/ ConvertReturn

ConvertSpec == ConvertInit /\ [][ConvertNext]_vars

\* C18: convert validates the whole list before converting any element; when
\* the validation fails the error is raised with no element converted, and
\* when it succeeds the result has one (Amount, contract) pair per element of
\* the input, in the order of the input
C18_ValidateThenConvert ==
    /\ pc = "idle" => out = <<>>
    /\ pc = "raised" =>
        /\ out = <<>>
        /\ \E k \in 1..Len(arg) : ~address_schema(arg[k])
    /\ out # <<>> => \A k \in 1..Len(arg) : address_schema(arg[k])
    /\ pc = "done" =>
        /\ Len(out) = Len(arg)
        /\ \A k \in 1..Len(arg) :
            out[k] = <<arg[k].amount, PayToSegwitAddress(arg[k].address)>>

C18_Witness ==
    /\ pc = "done"
    /\ Len(arg) = 2
    /\ arg[1] # arg[2]
    /\ out = <<<<arg[1].amount, PayToSegwitAddress(arg[1].address)>>,
               <<arg[2].amount, PayToSegwitAddress(arg[2].address)>>>>

C18_WitnessRaised ==
    /\ pc = "raised"
    /\ Len(arg) = 2
    /\ address_schema(arg[1])
    /\ ~address_schema(arg[2])

====
